---- MODULE Spec2Model ----
(***************************************************************************)
(* Model of the gharial test allocator: TestAlloc (src/alloc.rs), a        *)
(* GlobalAlloc wrapper that keeps a ledger Arc<Mutex<HashMap<ptr,Layout>>> *)
(* shared by its clones, and TestBox (src/boxed.rs), an owning pointer     *)
(* that allocates through it.  Every thread runs one operation at a time;  *)
(* an operation is split where another thread can observe it: at the call *)
(* into the wrapped allocator, at the acquisition of the ledger mutex, at  *)
(* the critical section, and at the release of the Arc reference.          *)
(* MaybeAlloc and NeverAlloc (src/alloc.rs), the allocators that fail on    *)
(* purpose, are called by one thread, MaybeAlloc over an inner TestAlloc.   *)
(***************************************************************************)
EXTENDS Integers, FiniteSets, Sequences, TLC

\* ---------------------------------------------------------------- bounds
MaxHandles == 2
MaxBoxes == 2
MaxOps == 5

\* ------------------------------------------------------------- constants
Null == 0

\* Two threads and two non-null addresses: the smallest instance in which two
\* calls race and in which a freed address and a fresh one can both be handed out.
Threads == {1, 2}
Addrs == {1, 2}
Handles == 1..MaxHandles
Boxes == 1..MaxBoxes

\* Layout is a (size, align) pair; LayoutT is Layout::new::<T>() of the box's T.
LayoutT == <<4, 4>>
LayoutU == <<8, 4>>
Layouts == {LayoutT, LayoutU}

\* Option::None of HashMap::insert / HashMap::remove
None == <<>>

\* No ledger lookup made yet in the current call.
Unset == <<0>>

\* rand::random::<u8>() ranges over all bytes.
Bytes == 0..255

\* No byte drawn: the thread is not in MaybeAlloc::alloc.
NoDraw == 0 - 1

\* The inner allocator was not called in the running MaybeAlloc::alloc.
NotCalled == 0 - 1

VARIABLES
    allocatings,  \* the HashMap<*mut u8, Layout> inside the Mutex
    lockOwner,    \* thread holding the MutexGuard, 0 when unlocked
    poisoned,     \* Mutex poison flag: a guard was dropped while panicking
    strong,       \* Arc::strong_count of the shared ledger
    hstate,       \* each TestAlloc handle: "unborn", "alive", "boxed", "dead"
    sysLive,      \* addresses live in the wrapped (backing) allocator
    backing,      \* "correct" or "buggy" wrapped allocator
    box,          \* each TestBox: st, ptr, h (its allocator); orig, by: the address it
                  \* was made for and how; dtor, frees: destructor runs, dealloc calls
    pc,           \* each thread's position
    th,           \* handle the thread's current call goes through
    tptr,         \* the call's ptr (argument, or the wrapped allocator's result)
    tlay,         \* the call's layout
    cont,         \* the TestBox operation the call is part of, "none" otherwise
    tbox,         \* the TestBox of that operation
    fired,        \* per thread: the assertion that ended it, "" when none
    held,         \* addresses handed to the program and not yet given back
    misuse,       \* some deallocate call was not for a held address/descriptor
    leaked,       \* the last handle's drop began while an address was held
    lastDrop,     \* per thread: the running drop began as the sole live handle
    call,         \* per thread: the TestAlloc call it is in or panicked in
    seen,         \* per thread: what the call's ledger lookup found
    freed,        \* addresses whose deallocate through the ledger completed
    ops,          \* operations started so far
    draw,         \* per thread: the byte MaybeAlloc::alloc drew in the running call
    iret,         \* per thread: what the inner allocator returned to MaybeAlloc::alloc
    live          \* addresses a successful alloc returned, until a successful dealloc of them

vars == <<allocatings, lockOwner, poisoned, strong, hstate, sysLive, backing, box,
          pc, th, tptr, tlay, cont, tbox, fired, held, misuse, leaked, lastDrop,
          call, seen, freed, ops, draw, iret, live>>

\* ------------------------------------------------- HashMap and assertions
MapGet(m, k) == IF k \in DOMAIN m THEN m[k] ELSE None

MapInsert(m, k, v) == [x \in (DOMAIN m) \cup {k} |-> IF x = k THEN v ELSE m[x]]

\* Mutant: the record is looked up but left in the map (get instead of remove).
MapRemove_Keep(m, k) == m

MapRemove(m, k) == [x \in (DOMAIN m) \ {k} |-> m[x]]

MapIsEmpty(m) == DOMAIN m = {}

EmptyMap == [x \in {} |-> None]

\* The program's own account of what it holds (the caller's side of the
\* GlobalAlloc contract): gained when alloc returns, given up when dealloc is called.
Give(hd, p, l) == [x \in (DOMAIN hd) \cup {p} |-> IF x = p THEN l ELSE hd[x]]

TakeBack(hd, p) == [x \in (DOMAIN hd) \ {p} |-> hd[x]]

Holds(hd, p, l) == p \in DOMAIN hd /\ hd[p] = l

NoBox == [st |-> "none", ptr |-> Null, h |-> 0, orig |-> Null, by |-> "", dtor |-> 0, frees |-> <<>>]

\* The state after TestAlloc::from(inner) (alloc.rs:112-117), over a wrapped
\* allocator of the given kind.
InitWith(kind) ==
    /\ allocatings = EmptyMap
    /\ lockOwner = 0
    /\ poisoned = FALSE
    /\ strong = 1
    /\ hstate = [h \in Handles |-> IF h = 1 THEN "alive" ELSE "unborn"]
    /\ sysLive = {}
    /\ backing = kind
    /\ box = [b \in Boxes |-> NoBox]
    /\ pc = [t \in Threads |-> "idle"]
    /\ th = [t \in Threads |-> 0]
    /\ tptr = [t \in Threads |-> Null]
    /\ tlay = [t \in Threads |-> None]
    /\ cont = [t \in Threads |-> "none"]
    /\ tbox = [t \in Threads |-> 0]
    /\ fired = [t \in Threads |-> ""]
    /\ held = EmptyMap
    /\ misuse = FALSE
    /\ leaked = FALSE
    /\ lastDrop = [t \in Threads |-> FALSE]
    /\ call = [t \in Threads |-> ""]
    /\ seen = [t \in Threads |-> Unset]
    /\ freed = {}
    /\ ops = 0
    /\ draw = [t \in Threads |-> NoDraw]
    /\ iret = [t \in Threads |-> NotCalled]
    /\ live = EmptyMap

Init == InitWith("correct")

InitBuggy == InitWith("buggy")

\* ------------------------------------------------------------ helpers
Aborted == \E t \in Threads : pc[t] = "aborted"

\* Thread t stands at `where`; handle_alloc_error has not ended the process.
At(t, where) == pc[t] = where /\ ~Aborted

\* Thread t may start an operation.
CanStart(t) == At(t, "idle") /\ ops < MaxOps

\* A call through handle h is in flight (h is borrowed, or being dropped).
Borrowed(h) == \E t \in Threads : th[t] = h

FirstUnborn == CHOOSE h \in Handles : hstate[h] = "unborn" /\ \A g \in Handles : hstate[g] = "unborn" => h <= g

FirstNoBox == CHOOSE b \in Boxes : box[b].st = "none" /\ \A c \in Boxes : box[c].st = "none" => b <= c

\* The thread's operation is over: back to the caller.
Return(t) ==
    /\ pc' = [pc EXCEPT ![t] = "idle"]
    /\ th' = [th EXCEPT ![t] = 0]
    /\ tptr' = [tptr EXCEPT ![t] = Null]
    /\ tlay' = [tlay EXCEPT ![t] = None]
    /\ cont' = [cont EXCEPT ![t] = "none"]
    /\ tbox' = [tbox EXCEPT ![t] = 0]
    /\ call' = [call EXCEPT ![t] = ""]
    /\ seen' = [seen EXCEPT ![t] = Unset]

\* assert_eq! / unwrap failed: the thread unwinds out of the call, its borrow of
\* the handle ends.  found: what the ledger lookup of the call had returned.
Panic(t, why, found) ==
    /\ pc' = [pc EXCEPT ![t] = "panicked"]
    /\ fired' = [fired EXCEPT ![t] = why]
    /\ th' = [th EXCEPT ![t] = 0]
    /\ seen' = [seen EXCEPT ![t] = found]
    /\ UNCHANGED <<tptr, tlay, cont, tbox, call>>

\* Mutant: the poison is ignored (the guard is taken out of the PoisonError).
LockOk_IgnorePoison == TRUE

\* self.allocatings.lock().unwrap() yields the guard unless the mutex is poisoned.
LockOk == ~poisoned

\* ------------------------------------------------------------ TestAlloc
\* Mutant: the result of insert is not checked.
InsertOk_Always(prev) == TRUE

\* alloc.rs:153  assert_eq!(true, prev.is_none())
InsertOk(prev) == prev = None

\* Mutant: a missing record is tolerated (unwrap_or_default instead of unwrap).
RemoveOk_Always(prev) == TRUE

\* alloc.rs:166  allocatings.remove(&ptr).unwrap()
RemoveOk(prev) == prev # None

\* Mutant: only the alignments are compared.
LayoutOk_AlignOnly(l, prev) == prev # None /\ l[2] = prev[2]

\* alloc.rs:167  assert_eq!(layout, prev)
LayoutOk(l, prev) == l = prev

\* Mutant: the check is made at every drop.
IsLast_Any(cnt) == cnt >= 1

\* Mutant: off by one, the check is also made when one other handle is left.
IsLast_UpToTwo(cnt) == cnt <= 2

\* Mutant: compares with the count after this handle's release.
IsLast_AfterRelease(cnt) == cnt = 0

\* alloc.rs:137  Arc::strong_count(&self.allocatings) == 1
IsLast(cnt) == cnt = 1

\* What the wrapped allocator may return for an alloc call: null, or an address;
\* a correct one never returns an address that is still live.
InnerAllocResults ==
    {Null} \cup {p \in Addrs : backing = "buggy" \/ p \notin sysLive}

\* The caller gets alloc's result p: TestBox::new (cont = "new"), MaybeAlloc::alloc
\* (cont = "maybe"), or the program.
AllocReturn(t, p) ==
    IF cont[t] = "maybe"
    THEN \* alloc.rs:253  the value of self.alloc.alloc(layout) is MaybeAlloc's result
         /\ iret' = [iret EXCEPT ![t] = p]
         /\ live' = IF p = Null THEN live ELSE Give(live, p, tlay[t])
         /\ pc' = [pc EXCEPT ![t] = "maybe_ret"]
         /\ th' = [th EXCEPT ![t] = 0]
         /\ call' = [call EXCEPT ![t] = ""]
         /\ seen' = [seen EXCEPT ![t] = Unset]
         /\ UNCHANGED <<held, tptr, tlay, cont, tbox, fired, box>>
    ELSE
    /\ held' = IF p = Null THEN held ELSE Give(held, p, tlay[t])
    /\ live' = IF p = Null THEN live ELSE Give(live, p, tlay[t])
    /\ UNCHANGED iret
    /\ IF cont[t] = "new"
       THEN IF p = Null
            THEN \* boxed.rs:135-137  handle_alloc_error(layout)
                 /\ pc' = [pc EXCEPT ![t] = "aborted"]
                 /\ fired' = [fired EXCEPT ![t] = "oom"]
                 /\ UNCHANGED <<th, tptr, tlay, cont, tbox, call, seen, box>>
            ELSE \* boxed.rs:139-140  ptr.write(x); Self { ptr, alloc }
                 /\ box' = [box EXCEPT ![tbox[t]] =
                        [st |-> "owned", ptr |-> p, h |-> th[t], orig |-> p,
                         by |-> "new", dtor |-> 0, frees |-> <<>>]]
                 /\ Return(t)
                 /\ UNCHANGED fired
       ELSE /\ Return(t)
            /\ UNCHANGED <<fired, box>>

\* alloc.rs:149  let ptr = self.alloc.alloc(layout);  (c, b: the TestBox operation)
InnerAlloc(t, h, l, c, b, p) ==
    /\ p \in InnerAllocResults
    /\ sysLive' = IF p = Null THEN sysLive ELSE sysLive \cup {p}
    /\ th' = [th EXCEPT ![t] = h]
    /\ tlay' = [tlay EXCEPT ![t] = l]
    /\ tptr' = [tptr EXCEPT ![t] = p]
    /\ cont' = [cont EXCEPT ![t] = c]
    /\ tbox' = [tbox EXCEPT ![t] = b]
    /\ call' = [call EXCEPT ![t] = "alloc"]
    /\ pc' = [pc EXCEPT ![t] = IF p = Null THEN "alloc_ret" ELSE "alloc_lock"]
    /\ ops' = ops + 1

\* TestAlloc::alloc called by the program on handle h.
alloc(t, h, l, p) ==
    /\ CanStart(t)
    /\ hstate[h] = "alive"
    /\ InnerAlloc(t, h, l, "none", 0, p)
    /\ UNCHANGED <<allocatings, lockOwner, poisoned, strong, hstate, backing, box,
                   fired, held, misuse, leaked, lastDrop, seen, freed>>
    /\ UNCHANGED <<draw, iret>>
    /\ UNCHANGED live

\* alloc.rs:151  self.allocatings.lock().unwrap()
alloc_lock(t) ==
    /\ At(t, "alloc_lock") /\ lockOwner = 0
    /\ IF LockOk
       THEN /\ lockOwner' = t
            /\ pc' = [pc EXCEPT ![t] = "alloc_insert"]
            /\ UNCHANGED <<fired, th, tptr, tlay, cont, tbox, call, seen>>
       ELSE /\ Panic(t, "poison", seen[t])
            /\ UNCHANGED lockOwner
    /\ UNCHANGED <<allocatings, poisoned, strong, hstate, sysLive, backing, box,
                   held, misuse, leaked, lastDrop, freed, ops>>
    /\ UNCHANGED <<draw, iret>>
    /\ UNCHANGED live

\* Mutant: the guard is leaked after the insert (mem::forget), the lock stays held.
alloc_insert_KeepLock(t) ==
    /\ At(t, "alloc_insert") /\ lockOwner = t
    /\ allocatings' = MapInsert(allocatings, tptr[t], tlay[t])
    /\ UNCHANGED lockOwner
    /\ IF InsertOk(MapGet(allocatings, tptr[t]))
       THEN /\ AllocReturn(t, tptr[t])
            /\ UNCHANGED poisoned
       ELSE /\ Panic(t, "alloc_exists", MapGet(allocatings, tptr[t]))
            /\ poisoned' = TRUE
            /\ UNCHANGED <<held, box, iret, live>>
    /\ UNCHANGED <<strong, hstate, sysLive, backing, misuse, leaked, lastDrop,
                   freed, ops>>
    /\ UNCHANGED draw

\* alloc.rs:152-154  insert, assert, guard dropped
alloc_insert(t) ==
    /\ At(t, "alloc_insert") /\ lockOwner = t
    /\ allocatings' = MapInsert(allocatings, tptr[t], tlay[t])
    /\ lockOwner' = 0
    /\ IF InsertOk(MapGet(allocatings, tptr[t]))
       THEN /\ AllocReturn(t, tptr[t])
            /\ UNCHANGED poisoned
       ELSE /\ Panic(t, "alloc_exists", MapGet(allocatings, tptr[t]))
            /\ poisoned' = TRUE
            /\ UNCHANGED <<held, box, iret, live>>
    /\ UNCHANGED <<strong, hstate, sysLive, backing, misuse, leaked, lastDrop,
                   freed, ops>>
    /\ UNCHANGED draw

\* Mutant: no null check, the null result is recorded like any other address.
alloc_ret_Record(t) ==
    /\ At(t, "alloc_ret")
    /\ allocatings' = MapInsert(allocatings, tptr[t], tlay[t])
    /\ AllocReturn(t, tptr[t])
    /\ UNCHANGED <<lockOwner, poisoned, strong, hstate, sysLive, backing,
                   misuse, leaked, lastDrop, freed, ops>>
    /\ UNCHANGED draw

\* alloc.rs:150,156  a null result is returned without touching the ledger
alloc_ret(t) ==
    /\ At(t, "alloc_ret")
    /\ AllocReturn(t, tptr[t])
    /\ UNCHANGED <<allocatings, lockOwner, poisoned, strong, hstate, sysLive, backing,
                   misuse, leaked, lastDrop, freed, ops>>
    /\ UNCHANGED draw

\* alloc.rs:159-161  dealloc entered with (p, l); assert_eq!(false, ptr.is_null())
DeallocEnter(t, h, p, l, c, b) ==
    /\ misuse' = (misuse \/ ~Holds(held, p, l))
    /\ held' = IF Holds(held, p, l) THEN TakeBack(held, p) ELSE held
    /\ tlay' = [tlay EXCEPT ![t] = l]
    /\ tptr' = [tptr EXCEPT ![t] = p]
    /\ cont' = [cont EXCEPT ![t] = c]
    /\ tbox' = [tbox EXCEPT ![t] = b]
    /\ call' = [call EXCEPT ![t] = "dealloc"]
    /\ IF p = Null
       THEN /\ pc' = [pc EXCEPT ![t] = "panicked"]
            /\ fired' = [fired EXCEPT ![t] = "dealloc_null"]
            /\ UNCHANGED th
       ELSE /\ pc' = [pc EXCEPT ![t] = "dealloc_lock"]
            /\ th' = [th EXCEPT ![t] = h]
            /\ UNCHANGED fired
    /\ ops' = ops + 1

\* TestAlloc::dealloc called by the program on handle h.
dealloc(t, h, p, l) ==
    /\ CanStart(t)
    /\ hstate[h] = "alive"
    /\ DeallocEnter(t, h, p, l, "none", 0)
    /\ UNCHANGED <<allocatings, lockOwner, poisoned, strong, hstate, sysLive, backing,
                   box, leaked, lastDrop, seen, freed>>
    /\ UNCHANGED <<draw, iret>>
    /\ UNCHANGED live

\* Mutant: the wrapped allocator's dealloc runs before the record is removed.
dealloc_lock_FreeFirst(t) ==
    /\ At(t, "dealloc_lock") /\ lockOwner = 0
    /\ sysLive' = sysLive \ {tptr[t]}
    /\ IF LockOk
       THEN /\ lockOwner' = t
            /\ pc' = [pc EXCEPT ![t] = "dealloc_remove"]
            /\ UNCHANGED <<fired, th, tptr, tlay, cont, tbox, call, seen>>
       ELSE /\ Panic(t, "poison", seen[t])
            /\ UNCHANGED lockOwner
    /\ UNCHANGED <<allocatings, poisoned, strong, hstate, backing, box,
                   held, misuse, leaked, lastDrop, freed, ops>>
    /\ UNCHANGED <<draw, iret>>
    /\ UNCHANGED live

\* alloc.rs:165  self.allocatings.lock().unwrap()
dealloc_lock(t) ==
    /\ At(t, "dealloc_lock") /\ lockOwner = 0
    /\ IF LockOk
       THEN /\ lockOwner' = t
            /\ pc' = [pc EXCEPT ![t] = "dealloc_remove"]
            /\ UNCHANGED <<fired, th, tptr, tlay, cont, tbox, call, seen>>
       ELSE /\ Panic(t, "poison", seen[t])
            /\ UNCHANGED lockOwner
    /\ UNCHANGED <<allocatings, poisoned, strong, hstate, sysLive, backing, box,
                   held, misuse, leaked, lastDrop, freed, ops>>
    /\ UNCHANGED <<draw, iret>>
    /\ UNCHANGED live

\* Mutant: the wrapped allocator's dealloc is called inside the critical section,
\* before the record is checked.
dealloc_remove_FreeAnyway(t) ==
    /\ At(t, "dealloc_remove") /\ lockOwner = t
    /\ allocatings' = MapRemove(allocatings, tptr[t])
    /\ lockOwner' = 0
    /\ sysLive' = sysLive \ {tptr[t]}
    /\ LET prev == MapGet(allocatings, tptr[t]) IN
       IF ~RemoveOk(prev)
       THEN /\ Panic(t, "dealloc_untracked", prev)
            /\ poisoned' = TRUE
            /\ UNCHANGED live
       ELSE IF ~LayoutOk(tlay[t], prev)
       THEN /\ Panic(t, "dealloc_mismatch", prev)
            /\ poisoned' = TRUE
            /\ UNCHANGED live
       ELSE \* nothing after this point makes the call fail
            /\ pc' = [pc EXCEPT ![t] = "dealloc_inner"]
            /\ seen' = [seen EXCEPT ![t] = prev]
            /\ live' = TakeBack(live, tptr[t])
            /\ UNCHANGED <<poisoned, fired, th, tptr, tlay, cont, tbox, call>>
    /\ UNCHANGED <<strong, hstate, backing, box, held, misuse, leaked,
                   lastDrop, freed, ops>>
    /\ UNCHANGED <<draw, iret>>

\* Mutant: the guard lives to the end of dealloc, across the wrapped allocator's call.
dealloc_remove_KeepLock(t) ==
    /\ At(t, "dealloc_remove") /\ lockOwner = t
    /\ allocatings' = MapRemove(allocatings, tptr[t])
    /\ lockOwner' = (IF RemoveOk(MapGet(allocatings, tptr[t]))
                         /\ LayoutOk(tlay[t], MapGet(allocatings, tptr[t]))
                     THEN t ELSE 0)
    /\ LET prev == MapGet(allocatings, tptr[t]) IN
       IF ~RemoveOk(prev)
       THEN /\ Panic(t, "dealloc_untracked", prev)
            /\ poisoned' = TRUE
            /\ UNCHANGED live
       ELSE IF ~LayoutOk(tlay[t], prev)
       THEN /\ Panic(t, "dealloc_mismatch", prev)
            /\ poisoned' = TRUE
            /\ UNCHANGED live
       ELSE \* nothing after this point makes the call fail
            /\ pc' = [pc EXCEPT ![t] = "dealloc_inner"]
            /\ seen' = [seen EXCEPT ![t] = prev]
            /\ live' = TakeBack(live, tptr[t])
            /\ UNCHANGED <<poisoned, fired, th, tptr, tlay, cont, tbox, call>>
    /\ UNCHANGED <<strong, hstate, sysLive, backing, box, held, misuse, leaked,
                   lastDrop, freed, ops>>
    /\ UNCHANGED <<draw, iret>>

\* Mutant: the record is looked up and compared first, and removed only when it matches.
dealloc_remove_CheckFirst(t) ==
    /\ At(t, "dealloc_remove") /\ lockOwner = t
    /\ allocatings' = (IF LayoutOk(tlay[t], MapGet(allocatings, tptr[t]))
                       THEN MapRemove(allocatings, tptr[t]) ELSE allocatings)
    /\ lockOwner' = 0
    /\ LET prev == MapGet(allocatings, tptr[t]) IN
       IF ~RemoveOk(prev)
       THEN /\ Panic(t, "dealloc_untracked", prev)
            /\ poisoned' = TRUE
            /\ UNCHANGED live
       ELSE IF ~LayoutOk(tlay[t], prev)
       THEN /\ Panic(t, "dealloc_mismatch", prev)
            /\ poisoned' = TRUE
            /\ UNCHANGED live
       ELSE \* nothing after this point makes the call fail
            /\ pc' = [pc EXCEPT ![t] = "dealloc_inner"]
            /\ seen' = [seen EXCEPT ![t] = prev]
            /\ live' = TakeBack(live, tptr[t])
            /\ UNCHANGED <<poisoned, fired, th, tptr, tlay, cont, tbox, call>>
    /\ UNCHANGED <<strong, hstate, sysLive, backing, box, held, misuse, leaked,
                   lastDrop, freed, ops>>
    /\ UNCHANGED <<draw, iret>>

\* alloc.rs:166-168  remove(&ptr).unwrap(), assert_eq!(layout, prev), guard dropped
dealloc_remove(t) ==
    /\ At(t, "dealloc_remove") /\ lockOwner = t
    /\ allocatings' = MapRemove(allocatings, tptr[t])
    /\ lockOwner' = 0
    /\ LET prev == MapGet(allocatings, tptr[t]) IN
       IF ~RemoveOk(prev)
       THEN /\ Panic(t, "dealloc_untracked", prev)
            /\ poisoned' = TRUE
            /\ UNCHANGED live
       ELSE IF ~LayoutOk(tlay[t], prev)
       THEN /\ Panic(t, "dealloc_mismatch", prev)
            /\ poisoned' = TRUE
            /\ UNCHANGED live
       ELSE \* nothing after this point makes the call fail
            /\ pc' = [pc EXCEPT ![t] = "dealloc_inner"]
            /\ seen' = [seen EXCEPT ![t] = prev]
            /\ live' = TakeBack(live, tptr[t])
            /\ UNCHANGED <<poisoned, fired, th, tptr, tlay, cont, tbox, call>>
    /\ UNCHANGED <<strong, hstate, sysLive, backing, box, held, misuse, leaked,
                   lastDrop, freed, ops>>
    /\ UNCHANGED <<draw, iret>>

\* alloc.rs:136-137  TestAlloc::drop reads the strong count of the ledger's Arc.
StartDrop(t, h) ==
    /\ lastDrop' = [lastDrop EXCEPT ![t] =
                       \A g \in Handles \ {h} : hstate[g] \in {"unborn", "dead"}]
    /\ leaked' = (leaked \/ ((DOMAIN held # {}) /\
                       \A g \in Handles \ {h} : hstate[g] \notin {"alive", "boxed"}))
    /\ hstate' = [hstate EXCEPT ![h] = "dropping"]
    /\ th' = [th EXCEPT ![t] = h]
    /\ call' = [call EXCEPT ![t] = "drop"]
    /\ seen' = [seen EXCEPT ![t] = Unset]
    /\ pc' = [pc EXCEPT ![t] = IF IsLast(strong) THEN "drop_lock" ELSE "drop_release"]

\* alloc.rs:170  self.alloc.dealloc(ptr, layout); then back to the caller
dealloc_inner(t) ==
    /\ At(t, "dealloc_inner")
    /\ sysLive' = sysLive \ {tptr[t]}
    /\ freed' = freed \cup {tptr[t]}
    /\ IF cont[t] = "boxdrop"
       THEN \* boxed.rs:203  TestBox::drop is over, the field alloc is dropped next
            /\ pc' = [pc EXCEPT ![t] = "drop_field"]
            /\ UNCHANGED <<th, tptr, tlay, cont, tbox, call, seen>>
       ELSE Return(t)
    /\ UNCHANGED <<allocatings, lockOwner, poisoned, strong, hstate, backing, box,
                   fired, held, misuse, leaked, lastDrop, ops>>
    /\ UNCHANGED <<draw, iret>>
    /\ UNCHANGED live

\* TestAlloc::drop of a handle the program owns.
drop(t, h) ==
    /\ CanStart(t)
    /\ hstate[h] = "alive" /\ ~Borrowed(h)
    /\ StartDrop(t, h)
    /\ ops' = ops + 1
    /\ UNCHANGED <<allocatings, lockOwner, poisoned, strong, sysLive, backing, box,
                   tptr, tlay, cont, tbox, fired, held, misuse, freed>>
    /\ UNCHANGED <<draw, iret>>
    /\ UNCHANGED live

\* TestAlloc::drop of the allocator a TestBox owned, after TestBox::drop.
drop_field(t) ==
    /\ At(t, "drop_field")
    /\ StartDrop(t, th[t])
    /\ UNCHANGED <<allocatings, lockOwner, poisoned, strong, sysLive, backing, box,
                   tptr, tlay, cont, tbox, fired, held, misuse, freed, ops>>
    /\ UNCHANGED <<draw, iret>>
    /\ UNCHANGED live

\* alloc.rs:138  self.allocatings.lock().unwrap(); the Arc field is released even
\* when drop unwinds.
drop_lock(t) ==
    /\ At(t, "drop_lock") /\ lockOwner = 0
    /\ IF LockOk
       THEN /\ lockOwner' = t
            /\ pc' = [pc EXCEPT ![t] = "drop_check"]
            /\ UNCHANGED <<fired, th, tptr, tlay, cont, tbox, call, seen, strong, hstate>>
       ELSE /\ Panic(t, "poison", seen[t])
            /\ strong' = strong - 1
            /\ hstate' = [hstate EXCEPT ![th[t]] = "dead"]
            /\ UNCHANGED lockOwner
    /\ UNCHANGED <<allocatings, poisoned, sysLive, backing, box, held, misuse,
                   leaked, lastDrop, freed, ops>>
    /\ UNCHANGED <<draw, iret>>
    /\ UNCHANGED live

\* Mutant: the result of is_empty() is not asserted.
drop_check_NoAssert(t) ==
    /\ At(t, "drop_check") /\ lockOwner = t
    /\ lockOwner' = 0
    /\ IF TRUE
       THEN /\ pc' = [pc EXCEPT ![t] = "drop_release"]
            /\ UNCHANGED <<poisoned, fired, th, tptr, tlay, cont, tbox, call, seen,
                           strong, hstate>>
       ELSE /\ Panic(t, "drop_nonempty", seen[t])
            /\ poisoned' = TRUE
            /\ strong' = strong - 1
            /\ hstate' = [hstate EXCEPT ![th[t]] = "dead"]
    /\ UNCHANGED <<allocatings, sysLive, backing, box, held, misuse, leaked,
                   lastDrop, freed, ops>>
    /\ UNCHANGED <<draw, iret>>
    /\ UNCHANGED live

\* alloc.rs:139-140  assert_eq!(true, allocatings.is_empty()); guard dropped
drop_check(t) ==
    /\ At(t, "drop_check") /\ lockOwner = t
    /\ lockOwner' = 0
    /\ IF MapIsEmpty(allocatings)
       THEN /\ pc' = [pc EXCEPT ![t] = "drop_release"]
            /\ UNCHANGED <<poisoned, fired, th, tptr, tlay, cont, tbox, call, seen,
                           strong, hstate>>
       ELSE /\ Panic(t, "drop_nonempty", seen[t])
            /\ poisoned' = TRUE
            /\ strong' = strong - 1
            /\ hstate' = [hstate EXCEPT ![th[t]] = "dead"]
    /\ UNCHANGED <<allocatings, sysLive, backing, box, held, misuse, leaked,
                   lastDrop, freed, ops>>
    /\ UNCHANGED <<draw, iret>>
    /\ UNCHANGED live

\* alloc.rs:141-142  the fields are dropped: the Arc reference is released
drop_release(t) ==
    /\ At(t, "drop_release")
    /\ strong' = strong - 1
    /\ hstate' = [hstate EXCEPT ![th[t]] = "dead"]
    /\ Return(t)
    /\ UNCHANGED <<allocatings, lockOwner, poisoned, sysLive, backing, box, fired,
                   held, misuse, leaked, lastDrop, freed, ops>>
    /\ UNCHANGED <<draw, iret>>
    /\ UNCHANGED live

\* alloc.rs:124-129  TestAlloc::clone: Arc::clone of the ledger
clone(t, h) ==
    /\ CanStart(t)
    /\ hstate[h] = "alive"
    /\ \E g \in Handles : hstate[g] = "unborn"
    /\ hstate' = [hstate EXCEPT ![FirstUnborn] = "alive"]
    /\ strong' = strong + 1
    /\ ops' = ops + 1
    /\ UNCHANGED <<allocatings, lockOwner, poisoned, sysLive, backing, box, pc, th,
                   tptr, tlay, cont, tbox, fired, held, misuse, leaked, lastDrop,
                   call, seen, freed>>
    /\ UNCHANGED <<draw, iret>>
    /\ UNCHANGED live

\* ------------------------------------------------------------ TestBox
\* boxed.rs:132-134  TestBox::new(x, alloc): the allocator moves into the box
new(t, h, p) ==
    /\ CanStart(t)
    /\ hstate[h] = "alive" /\ ~Borrowed(h)
    /\ \E b \in Boxes : box[b].st = "none"
    /\ hstate' = [hstate EXCEPT ![h] = "boxed"]
    /\ box' = [box EXCEPT ![FirstNoBox].st = "new"]
    /\ InnerAlloc(t, h, LayoutT, "new", FirstNoBox, p)
    /\ UNCHANGED <<allocatings, lockOwner, poisoned, strong, backing, fired, held,
                   misuse, leaked, lastDrop, seen, freed>>
    /\ UNCHANGED <<draw, iret>>
    /\ UNCHANGED live

\* boxed.rs:173-175  TestBox::from_raw_alloc(ptr, alloc)
from_raw_alloc(t, h, p) ==
    /\ CanStart(t)
    /\ hstate[h] = "alive" /\ ~Borrowed(h)
    /\ \E b \in Boxes : box[b].st = "none"
    /\ hstate' = [hstate EXCEPT ![h] = "boxed"]
    /\ box' = [box EXCEPT ![FirstNoBox] =
                  [st |-> "owned", ptr |-> p, h |-> h, orig |-> p, by |-> "from_raw",
                   dtor |-> 0, frees |-> <<>>]]
    /\ ops' = ops + 1
    /\ UNCHANGED <<allocatings, lockOwner, poisoned, strong, sysLive, backing, pc, th,
                   tptr, tlay, cont, tbox, fired, held, misuse, leaked, lastDrop,
                   call, seen, freed>>
    /\ UNCHANGED <<draw, iret>>
    /\ UNCHANGED live

\* Mutant: TestBox::drop returns early whatever the pointer is.
TestBoxDrop_NoFree(t, b, ptr, kind, ret) ==
    /\ StartDrop(t, box[b].h)
    /\ box' = [box EXCEPT ![b].st = kind, ![b].ptr = Null]
    /\ tptr' = [tptr EXCEPT ![t] = ret]
    /\ cont' = [cont EXCEPT ![t] = kind]
    /\ tbox' = [tbox EXCEPT ![t] = b]
    /\ ops' = ops + 1
    /\ UNCHANGED <<tlay, fired, held, misuse>>

\* boxed.rs:192-202  TestBox::drop of box b whose pointer field is now ptr;
\* kind is the operation the box is dropped in, ret the value that operation returns.
TestBoxDrop(t, b, ptr, kind, ret) ==
    IF ptr = Null
    THEN \* boxed.rs:193-195  return; the field alloc is dropped next
         /\ StartDrop(t, box[b].h)
         /\ box' = [box EXCEPT ![b].st = kind, ![b].ptr = Null]
         /\ tptr' = [tptr EXCEPT ![t] = ret]
         /\ cont' = [cont EXCEPT ![t] = kind]
         /\ tbox' = [tbox EXCEPT ![t] = b]
         /\ ops' = ops + 1
         /\ UNCHANGED <<tlay, fired, held, misuse>>
    ELSE \* boxed.rs:198-200  drop_in_place, then dealloc with Layout::new::<T>()
         /\ box' = [box EXCEPT ![b].st = "dropped", ![b].dtor = @ + 1,
                               ![b].frees = Append(@, <<ptr, LayoutT>>)]
         /\ DeallocEnter(t, box[b].h, ptr, LayoutT, "boxdrop", b)
         /\ UNCHANGED <<hstate, leaked, lastDrop, seen>>

\* A TestBox goes out of scope.
box_drop(t, b) ==
    /\ CanStart(t)
    /\ box[b].st = "owned"
    /\ TestBoxDrop(t, b, box[b].ptr, "dropped", Null)
    /\ UNCHANGED <<allocatings, lockOwner, poisoned, strong, sysLive, backing, freed>>
    /\ UNCHANGED <<draw, iret>>
    /\ UNCHANGED live

\* Mutant: the pointer is not nulled before the box is dropped.
leak_KeepPtr(t, b) ==
    /\ CanStart(t)
    /\ box[b].st = "owned"
    /\ box' = [box EXCEPT ![b].st = "leak", ![b].dtor = @ + 1,
                          ![b].frees = Append(@, <<box[b].ptr, LayoutT>>)]
    /\ DeallocEnter(t, box[b].h, box[b].ptr, LayoutT, "boxdrop", b)
    /\ UNCHANGED <<hstate, leaked, lastDrop, seen>>
    /\ UNCHANGED <<allocatings, lockOwner, poisoned, strong, sysLive, backing, freed>>
    /\ UNCHANGED <<draw, iret>>
    /\ UNCHANGED live

\* boxed.rs:281-289  TestBox::leak: tb.ptr = null, then tb is dropped
leak(t, b) ==
    /\ CanStart(t)
    /\ box[b].st = "owned"
    /\ TestBoxDrop(t, b, Null, "leak", box[b].ptr)
    /\ UNCHANGED <<allocatings, lockOwner, poisoned, strong, sysLive, backing, freed>>
    /\ UNCHANGED <<draw, iret>>
    /\ UNCHANGED live

\* boxed.rs:306-310  TestBox::into_raw: tb.ptr = null, then tb is dropped
into_raw(t, b) ==
    /\ CanStart(t)
    /\ box[b].st = "owned"
    /\ TestBoxDrop(t, b, Null, "into_raw", box[b].ptr)
    /\ UNCHANGED <<allocatings, lockOwner, poisoned, strong, sysLive, backing, freed>>
    /\ UNCHANGED <<draw, iret>>
    /\ UNCHANGED live

\* ------------------------------------------------- MaybeAlloc, NeverAlloc
\* Calls made through the failing allocators in one run, and the thread making
\* them: their decisions depend on nothing another thread does.
MaxCalls == 3

Callers == {1}

CanCall(t) == At(t, "idle") /\ ops < MaxCalls

\* rand::random::<u8>() is evaluated only by a thread entering MaybeAlloc::alloc.
Draws(t) == IF CanCall(t) THEN Bytes ELSE {}

\* Mutant: the low three bits are tested (modulo 8).
MaybeFails_Mod8(byte) == byte % 8 = 0

\* alloc.rs:250  rand::random::<u8>() % 16 == 0
MaybeFails(byte) == byte % 16 = 0

\* alloc.rs:249-255  MaybeAlloc::alloc over the inner TestAlloc h: null without
\* calling the inner allocator, or the inner allocator's alloc (p: what its own
\* wrapped allocator returns).
maybe_alloc(t, h, l, byte, p) ==
    /\ CanCall(t)
    /\ hstate[h] = "alive"
    /\ draw' = [draw EXCEPT ![t] = byte]
    /\ IF MaybeFails(byte)
       THEN /\ pc' = [pc EXCEPT ![t] = "maybe_ret"]
            /\ tptr' = [tptr EXCEPT ![t] = Null]
            /\ tlay' = [tlay EXCEPT ![t] = l]
            /\ cont' = [cont EXCEPT ![t] = "maybe"]
            /\ ops' = ops + 1
            /\ UNCHANGED <<sysLive, th, tbox, call>>
       ELSE InnerAlloc(t, h, l, "maybe", 0, p)
    /\ UNCHANGED <<allocatings, lockOwner, poisoned, strong, hstate, backing, box,
                   fired, held, misuse, leaked, lastDrop, seen, freed, iret>>
    /\ UNCHANGED live

\* alloc.rs:255  MaybeAlloc::alloc returns to the program
maybe_ret(t) ==
    /\ At(t, "maybe_ret")
    /\ held' = IF tptr[t] = Null THEN held ELSE Give(held, tptr[t], tlay[t])
    /\ Return(t)
    /\ draw' = [draw EXCEPT ![t] = NoDraw]
    /\ iret' = [iret EXCEPT ![t] = NotCalled]
    /\ UNCHANGED <<allocatings, lockOwner, poisoned, strong, hstate, sysLive, backing,
                   box, fired, misuse, leaked, lastDrop, freed, ops>>
    /\ UNCHANGED live

\* alloc.rs:257-260  MaybeAlloc::dealloc: assert_eq!(false, ptr.is_null()), then
\* the inner allocator's dealloc
maybe_dealloc(t, h, p, l) ==
    /\ CanCall(t)
    /\ hstate[h] = "alive"
    /\ IF p = Null
       THEN /\ pc' = [pc EXCEPT ![t] = "panicked"]
            /\ fired' = [fired EXCEPT ![t] = "maybe_dealloc_null"]
            /\ tptr' = [tptr EXCEPT ![t] = p]
            /\ tlay' = [tlay EXCEPT ![t] = l]
            /\ cont' = [cont EXCEPT ![t] = "maybe_dealloc"]
            /\ misuse' = TRUE
            /\ ops' = ops + 1
            /\ UNCHANGED <<held, th, tbox, call>>
       ELSE DeallocEnter(t, h, p, l, "maybe_dealloc", 0)
    /\ UNCHANGED <<allocatings, lockOwner, poisoned, strong, hstate, sysLive, backing,
                   box, leaked, lastDrop, seen, freed, draw, iret>>
    /\ UNCHANGED live

\* alloc.rs:197  core::ptr::null_mut()
NeverAllocResult(l) == Null

\* Mutant: only a null pointer is refused.
NeverDeallocOk_NonNull(p, l) == p # Null

\* alloc.rs:201  assert!(false)
NeverDeallocOk(p, l) == FALSE

\* alloc.rs:196-198  NeverAlloc::alloc
never_alloc(t, l) ==
    /\ CanCall(t)
    /\ pc' = [pc EXCEPT ![t] = "never_ret"]
    /\ tptr' = [tptr EXCEPT ![t] = NeverAllocResult(l)]
    /\ tlay' = [tlay EXCEPT ![t] = l]
    /\ cont' = [cont EXCEPT ![t] = "never_alloc"]
    /\ ops' = ops + 1
    /\ UNCHANGED <<allocatings, lockOwner, poisoned, strong, hstate, sysLive, backing,
                   box, th, tbox, fired, held, misuse, leaked, lastDrop, call, seen,
                   freed, draw, iret>>
    /\ UNCHANGED live

\* alloc.rs:200-202  NeverAlloc::dealloc
never_dealloc(t, p, l) ==
    /\ CanCall(t)
    /\ tptr' = [tptr EXCEPT ![t] = p]
    /\ tlay' = [tlay EXCEPT ![t] = l]
    /\ cont' = [cont EXCEPT ![t] = "never_dealloc"]
    /\ IF NeverDeallocOk(p, l)
       THEN /\ pc' = [pc EXCEPT ![t] = "never_ret"]
            /\ UNCHANGED fired
       ELSE /\ pc' = [pc EXCEPT ![t] = "panicked"]
            /\ fired' = [fired EXCEPT ![t] = "never_dealloc"]
    /\ ops' = ops + 1
    /\ UNCHANGED <<allocatings, lockOwner, poisoned, strong, hstate, sysLive, backing,
                   box, th, tbox, held, misuse, leaked, lastDrop, call, seen,
                   freed, draw, iret>>
    /\ UNCHANGED live

\* A NeverAlloc call returns to the program.
never_ret(t) ==
    /\ At(t, "never_ret")
    /\ Return(t)
    /\ UNCHANGED <<allocatings, lockOwner, poisoned, strong, hstate, sysLive, backing,
                   box, fired, held, misuse, leaked, lastDrop, freed, ops, draw, iret>>
    /\ UNCHANGED live

Next ==
  \E t \in Threads :
    \/ \E h \in Handles, l \in Layouts, p \in Addrs \cup {Null} : alloc(t, h, l, p)
    \/ alloc_lock(t)
    \/ alloc_insert(t)
    \/ alloc_ret(t)
    \/ \E h \in Handles, l \in Layouts, p \in Addrs \cup {Null} : dealloc(t, h, p, l)
    \/ dealloc_lock(t)
    \/ dealloc_remove(t)
    \/ dealloc_inner(t)
    \/ \E h \in Handles : drop(t, h)
    \/ drop_field(t)
    \/ drop_lock(t)
    \/ drop_check(t)
    \/ drop_release(t)
    \/ \E h \in Handles : clone(t, h)
    \/ \E h \in Handles, p \in Addrs \cup {Null} : new(t, h, p)
    \/ \E h \in Handles, p \in Addrs : from_raw_alloc(t, h, p)
    \/ \E b \in Boxes : box_drop(t, b)
    \/ \E b \in Boxes : leak(t, b)
    \/ \E b \in Boxes : into_raw(t, b)

\* A program that allocates through MaybeAlloc<TestAlloc<System>> and NeverAlloc.
NextFail ==
  \E t \in Callers :
    \/ \E byte \in Draws(t), h \in Handles, l \in Layouts, p \in Addrs \cup {Null} :
           maybe_alloc(t, h, l, byte, p)
    \/ maybe_ret(t)
    \/ \E h \in Handles, l \in Layouts, p \in Addrs \cup {Null} : maybe_dealloc(t, h, p, l)
    \/ \E l \in Layouts : never_alloc(t, l)
    \/ \E l \in Layouts, p \in Addrs \cup {Null} : never_dealloc(t, p, l)
    \/ never_ret(t)
    \/ alloc_lock(t)
    \/ alloc_insert(t)
    \/ alloc_ret(t)
    \/ dealloc_lock(t)
    \/ dealloc_remove(t)
    \/ dealloc_inner(t)

\* Over a wrapped allocator that keeps the GlobalAlloc contract.
Spec == Init /\ [][Next]_vars

\* Over a wrapped allocator that may return an address that is still live.
SpecBuggy == InitBuggy /\ [][Next]_vars

\* The steps thread t takes inside an operation it has started.
Step(t) ==
    \/ alloc_lock(t) \/ alloc_insert(t) \/ alloc_ret(t)
    \/ dealloc_lock(t) \/ dealloc_remove(t) \/ dealloc_inner(t)
    \/ drop_field(t) \/ drop_lock(t) \/ drop_check(t) \/ drop_release(t)

\* Fair scheduling: a thread that can take a step of its operation is not
\* passed over forever.
Fairness == \A t \in Threads : WF_vars(Step(t))

SpecFair == Init /\ [][Next]_vars /\ Fairness

\* MaybeAlloc<TestAlloc<System>> and NeverAlloc, called by one thread.
SpecFail == Init /\ [][NextFail]_vars

\* ------------------------------------------------------------ properties
\* Every TestAlloc handle has released its reference to the ledger.
AllGone == \A h \in Handles : hstate[h] \in {"unborn", "dead"}

NoneFired == \A t \in Threads : fired[t] = ""

\* C1: when every deallocate call so far was for an address and descriptor the
\* program held from a successful allocate (each given back once), and no
\* address was held when the last handle's drop began, no assertion has fired
\* in allocate, deallocate or drop.
C1_WellFormedNoAssertion ==
    (~misuse /\ ~leaked) => \A t \in Threads : fired[t] \in {"", "oom"}

\* A clone was made, an address was allocated and deallocated, both handles were
\* dropped, and nothing fired.
C1_Witness ==
    /\ AllGone /\ hstate[2] = "dead"
    /\ freed # {} /\ MapIsEmpty(allocatings)
    /\ ~misuse /\ ~leaked /\ NoneFired

\* C2: a drop that began as the sole remaining handle, after well-formed calls
\* and with an allocated address not yet deallocated, does not get past the
\* emptiness check: it is before the check or the empty-mapping assertion fired.
C2_LeakFiresAtLastDrop ==
    \A t \in Threads :
        (lastDrop[t] /\ ~misuse /\ (DOMAIN held # {}))
            => (pc[t] \in {"drop_lock", "drop_check"} \/ fired[t] = "drop_nonempty")

\* The last handle was dropped with an address outstanding and the assertion fired.
C2_Witness ==
    \E t \in Threads :
        lastDrop[t] /\ ~misuse /\ (DOMAIN held # {}) /\ fired[t] = "drop_nonempty"

\* C3: once all clones are gone after well-formed calls, an outstanding record
\* means the empty-mapping assertion has fired, whatever the interleaving of
\* the drops.
C3_CheckAtLastRelease ==
    (AllGone /\ ~misuse /\ ~MapIsEmpty(allocatings))
        => \E t \in Threads : fired[t] = "drop_nonempty"

\* C4: over a correct wrapped allocator, as long as every deallocate call was
\* well-formed, no thread has failed inside an allocate or deallocate call, in
\* any interleaving.
C4_NoAssertionInCalls ==
    ~misuse => \A t \in Threads :
                   call[t] \in {"alloc", "dealloc"} => fired[t] \in {"", "oom"}

\* One thread has just freed an address in a TestBox drop and is still in the
\* tail of that drop, while the address, handed out again by the wrapped
\* allocator, has been recorded for and returned to the other thread.
C4_Witness ==
    \E t \in Threads :
        /\ cont[t] = "boxdrop"
        /\ pc[t] \in {"drop_field", "drop_lock", "drop_check", "drop_release"}
        /\ tptr[t] \in DOMAIN held /\ tptr[t] \in DOMAIN allocatings
        /\ ~misuse /\ NoneFired

\* C5: whenever a deallocate finds a record for its address whose descriptor
\* differs from the descriptor argument, the descriptor-mismatch assertion has
\* fired in that call.
C5_MismatchFires ==
    \A t \in Threads :
        (call[t] = "dealloc" /\ seen[t] \notin {Unset, None} /\ seen[t] # tlay[t])
            => (pc[t] = "panicked" /\ fired[t] = "dealloc_mismatch")

\* An address the program holds under one descriptor was deallocated with the
\* other descriptor, and the mismatch assertion fired.
C5_Witness ==
    \E t \in Threads :
        /\ fired[t] = "dealloc_mismatch"
        /\ tptr[t] \in DOMAIN held /\ held[tptr[t]] # tlay[t]

\* C6: a deallocate of the null address has failed with the null assertion, and
\* a deallocate whose lookup found no record for its address (never allocated
\* through this ledger, or already deallocated) has failed at the lookup.
C6_NullOrUntrackedFires ==
    \A t \in Threads :
        call[t] = "dealloc" =>
            /\ tptr[t] = Null => (pc[t] = "panicked" /\ fired[t] = "dealloc_null")
            /\ seen[t] = None => (pc[t] = "panicked" /\ fired[t] = "dealloc_untracked")

\* A double deallocate: the address was deallocated through the ledger before,
\* has no record now, and the second deallocate failed.
C6_Witness ==
    \E t \in Threads :
        /\ fired[t] = "dealloc_untracked"
        /\ tptr[t] \in freed /\ tptr[t] \notin DOMAIN held

\* C7: only a drop that began when every other handle had released its
\* reference acquires the lock for the emptiness check or fires it.
C7_CheckOnlyAtLastDrop ==
    \A t \in Threads :
        (pc[t] \in {"drop_lock", "drop_check"} \/ fired[t] = "drop_nonempty")
            => lastDrop[t]

\* A handle's drop skipped the check while another handle is alive and a record
\* is outstanding.
C7_Witness ==
    \E t \in Threads :
        /\ pc[t] = "drop_release" /\ ~lastDrop[t]
        /\ \E g \in Handles : hstate[g] = "alive"
        /\ ~MapIsEmpty(allocatings) /\ NoneFired

\* C8: a TestBox made by new and dropped has run the destructor once and called
\* dealloc once, for the address alloc returned and with the layout of T; when
\* that dealloc is about to reach the wrapped allocator the ledger has no record
\* of the address and the record it removed had the layout of T; and when
\* nothing else is outstanding, no assertion fires in the drop, the drop of the
\* box's allocator included.
C8_BoxDropFreesOnce ==
    /\ \A b \in Boxes :
           (box[b].st = "dropped" /\ box[b].by = "new")
               => (box[b].dtor = 1 /\ box[b].frees = << <<box[b].orig, LayoutT>> >>)
    /\ \A t \in Threads :
           (cont[t] = "boxdrop" /\ pc[t] = "dealloc_inner")
               => (tptr[t] \notin DOMAIN allocatings /\ seen[t] = LayoutT)
    /\ \A t \in Threads :
           (cont[t] = "boxdrop" /\ ~misuse /\ DOMAIN held = {}) => fired[t] = ""

\* A box that held the only handle ever made was created and dropped: its
\* address was freed, the ledger is empty, the handle is released, nothing fired.
C8_Witness ==
    \E b \in Boxes :
        /\ box[b].st = "dropped" /\ box[b].by = "new"
        /\ box[b].orig \in freed
        /\ hstate[1] = "dead" /\ \A h \in Handles \ {1} : hstate[h] = "unborn"
        /\ MapIsEmpty(allocatings) /\ NoneFired

Escaped(b) == box[b].st \in {"leak", "into_raw"}

\* The address that escaped from b was adopted by a box that has been dropped.
Readopted(b) ==
    \E c \in Boxes :
        /\ box[c].by = "from_raw" /\ box[c].orig = box[b].orig
        /\ box[c].st = "dropped" /\ box[c].frees = << <<box[b].orig, LayoutT>> >>

\* C9: after leak or into_raw, once the escaped address was re-adopted and the
\* adopted box dropped, or deallocated by hand, with nothing else outstanding
\* and all handles dropped, the ledger is empty and no assertion has fired.
C9_ReadoptCleanTeardown ==
    \A b \in Boxes :
        ( /\ Escaped(b) /\ (Readopted(b) \/ box[b].orig \in freed)
          /\ AllGone /\ ~misuse /\ DOMAIN held = {} )
            => (MapIsEmpty(allocatings) /\ NoneFired)

\* A box made by new was leaked, its address adopted with the other clone, the
\* adopted box dropped, and the teardown was clean.
C9_Witness ==
    \E b \in Boxes :
        /\ box[b].st = "leak" /\ box[b].by = "new" /\ Readopted(b)
        /\ AllGone /\ MapIsEmpty(allocatings) /\ NoneFired

\* C10: an allocate that inserts a non-null address which already has a record
\* fails with the assertion in that step.
C10_DuplicateAddressFires ==
    [][\A t \in Threads :
          (pc[t] = "alloc_insert" /\ pc'[t] # "alloc_insert"
           /\ tptr[t] \in DOMAIN allocatings)
              => (pc'[t] = "panicked" /\ fired'[t] = "alloc_exists")]_vars

\* The wrapped allocator handed out an address the program already holds, and
\* the allocate that got it failed.
C10_Witness ==
    \E t \in Threads :
        /\ fired[t] = "alloc_exists" /\ call[t] = "alloc"
        /\ tptr[t] \in DOMAIN held /\ tptr[t] \notin freed /\ ~misuse

\* C11: an allocate whose wrapped allocator returned null leaves the ledger, the
\* lock and the poison flag as they were in each of its steps, fires no
\* assertion, and hands its caller null and nothing else: the program's
\* holdings do not change (in TestBox::new the null result ends the process).
C11_NullLeavesLedger ==
    [][\A t \in Threads :
          (call'[t] = "alloc" /\ tptr'[t] = Null /\ pc'[t] # pc[t])
          \/ (pc[t] = "alloc_ret" /\ pc'[t] # "alloc_ret")
              => /\ allocatings' = allocatings
                 /\ lockOwner' = lockOwner /\ poisoned' = poisoned
                 /\ held' = held
                 /\ pc'[t] \in {"alloc_ret", "idle", "aborted"}
                 /\ fired'[t] = (IF pc'[t] = "aborted" THEN "oom" ELSE "")]_vars

\* The wrapped allocator returned null to an allocate made for TestBox::new while
\* the ledger held a record: the null came back and the record is still there.
C11_Witness ==
    \E t \in Threads :
        /\ call[t] = "alloc" /\ tptr[t] = Null /\ fired[t] = "oom"
        /\ ~MapIsEmpty(allocatings) /\ DOMAIN allocatings = DOMAIN held
        /\ lockOwner = 0 /\ ~poisoned

\* C12 as stated: MaybeAlloc::alloc returns null exactly when the drawn byte
\* modulo 16 is zero.
C12_NullExactlyOnDraw ==
    \A t \in Threads :
        pc[t] = "maybe_ret" => (tptr[t] = Null <=> draw[t] % 16 = 0)

\* C12, amended: when the drawn byte modulo 16 is zero (16 of the 256 bytes),
\* MaybeAlloc::alloc returns null at once, the inner allocator is not called
\* and its ledger and the backing allocator are unchanged; for every other byte
\* the inner allocator is called with the same descriptor and its result,
\* null included, is the result.
C12_InjectedOrInner ==
    [][\A t \in Threads :
          (pc'[t] = "maybe_ret" /\ pc[t] # "maybe_ret") =>
              /\ draw'[t] \in Bytes
              /\ Cardinality({b \in Bytes : b % 16 = 0}) = 16
              /\ IF draw'[t] % 16 = 0
                 THEN /\ pc[t] = "idle" /\ tptr'[t] = Null /\ iret'[t] = NotCalled
                      /\ allocatings' = allocatings /\ sysLive' = sysLive
                 ELSE /\ call[t] = "alloc" /\ draw[t] = draw'[t] /\ tlay'[t] = tlay[t]
                      /\ iret'[t] # NotCalled /\ tptr'[t] = iret'[t]
                      /\ tptr'[t] # Null =>
                             MapGet(allocatings', tptr'[t]) = tlay'[t]]_vars

\* After a call that went to the inner allocator and was recorded, a call drew a
\* byte that is a multiple of 16 and is about to return null, the record untouched.
C12_Witness ==
    \E t \in Threads :
        /\ pc[t] = "maybe_ret" /\ draw[t] % 16 = 0 /\ draw[t] # 0
        /\ tptr[t] = Null /\ iret[t] = NotCalled
        /\ ~MapIsEmpty(allocatings) /\ DOMAIN allocatings = DOMAIN held

\* C13: every NeverAlloc::alloc returns null, whatever the descriptor, and every
\* NeverAlloc::dealloc, whatever its arguments, has failed on its assertion.
C13_NeverAllocFails ==
    \A t \in Threads :
        /\ cont[t] = "never_alloc" => (pc[t] = "never_ret" /\ tptr[t] = Null)
        /\ cont[t] = "never_dealloc" =>
               (pc[t] = "panicked" /\ fired[t] = "never_dealloc")

\* After an allocate that returned null, a deallocate of a non-null address
\* through NeverAlloc failed.
C13_Witness ==
    \E t \in Threads :
        /\ cont[t] = "never_dealloc" /\ fired[t] = "never_dealloc"
        /\ tptr[t] # Null /\ ops >= 2 /\ MapIsEmpty(allocatings)

\* Thread t is inside TestAlloc::alloc or TestAlloc::dealloc.
InCall(t) ==
    pc[t] \in {"alloc_lock", "alloc_insert", "alloc_ret",
               "dealloc_lock", "dealloc_remove", "dealloc_inner"}

Quiescent == \A t \in Threads : ~InCall(t)

C15_InnerDeallocAfterRemove ==
    [][(sysLive' # sysLive /\ sysLive' \subseteq sysLive) =>
          \E t \in Threads :
              /\ pc[t] = "dealloc_inner" /\ pc'[t] # "dealloc_inner"
              /\ sysLive' = sysLive \ {tptr[t]}
              /\ lockOwner # t /\ lockOwner' # t
              /\ seen[t] = tlay[t]
              /\ tptr[t] \notin DOMAIN allocatings
              /\ fired[t] = "" /\ fired'[t] = ""]_vars

\* One deallocate went through to the wrapped allocator; a later one failed on a
\* descriptor mismatch and its address is still allocated in the wrapped allocator.
C15_Witness ==
    \E t \in Threads :
        /\ fired[t] = "dealloc_mismatch"
        /\ tptr[t] \in sysLive /\ tptr[t] \notin DOMAIN allocatings
        /\ freed # {} /\ freed \cap sysLive = {}

\* The positions inside the critical section: the mapping is inserted into,
\* removed from and compared, or tested for emptiness.
InCritical(t) == pc[t] \in {"alloc_insert", "dealloc_remove", "drop_check"}

\* C16: a thread holds the lock exactly while it stands inside a critical
\* section, so never while the wrapped allocator's alloc or dealloc runs for
\* it; and every step that changes the mapping, every failed insert, remove or
\* comparison and every emptiness check is taken by the thread holding the lock.
C16_LockScopedToMapAccess ==
    [][/\ \A t \in Threads : (lockOwner = t <=> InCritical(t))
       /\ \A t \in Threads : pc[t] = "dealloc_inner" => lockOwner # t
       /\ \A t \in Threads :
             (sysLive' # sysLive /\ pc'[t] # pc[t]) => (lockOwner # t /\ lockOwner' # t)
       /\ allocatings' # allocatings =>
             \E t \in Threads : lockOwner = t /\ pc'[t] # pc[t]
       /\ \A t \in Threads :
             (fired'[t] # fired[t]
              /\ fired'[t] \in {"alloc_exists", "dealloc_untracked",
                                "dealloc_mismatch", "drop_nonempty"})
                 => lockOwner = t]_vars

\* One thread is inside the wrapped allocator's dealloc, not holding the lock,
\* while the other thread holds it inside its own critical section.
C16_Witness ==
    \E t \in Threads, u \in Threads :
        /\ t # u
        /\ pc[t] = "dealloc_inner" /\ tptr[t] \in sysLive
        /\ lockOwner = u /\ InCritical(u)

\* C17: a box that went through leak or into_raw has a null pointer, its
\* destruction ran no destructor and called no dealloc; and as long as the
\* program has not given the escaped address back, during the call and after
\* it, the ledger has its record with the descriptor of T.
C17_EscapeKeepsRecord ==
    \A b \in Boxes :
        Escaped(b) =>
            /\ box[b].ptr = Null /\ box[b].dtor = 0 /\ box[b].frees = <<>>
            /\ (~misuse /\ Holds(held, box[b].orig, LayoutT))
                   => MapGet(allocatings, box[b].orig) = LayoutT

\* A box made by new was leaked while another clone is alive; the call has
\* returned, the address was never freed and its record is in the ledger.
C17_Witness ==
    \E b \in Boxes :
        /\ box[b].st = "leak" /\ box[b].by = "new"
        /\ \A t \in Threads : pc[t] = "idle"
        /\ hstate[box[b].h] = "dead" /\ \E g \in Handles : hstate[g] = "alive"
        /\ freed = {} /\ NoneFired
        /\ MapGet(allocatings, box[b].orig) = LayoutT

\* An assertion has fired, or handle_alloc_error has ended the process.
SomeFired == \E t \in Threads : fired[t] # ""

\* C18: under fair scheduling, an operation a thread has started on the shared
\* ledger is eventually over, unless an assertion fires somewhere.
C18_OperationsComplete ==
    \A t \in Threads :
        (pc[t] \notin {"idle", "panicked", "aborted"}) ~> (pc[t] = "idle" \/ SomeFired)

\* A thread waits for the lock of the ledger while the other thread holds it.
C18_Witness ==
    \E t \in Threads, u \in Threads :
        /\ t # u /\ lockOwner = u /\ InCritical(u)
        /\ pc[t] \in {"alloc_lock", "dealloc_lock", "drop_lock"}
        /\ ~SomeFired

\* C19: over a correct wrapped allocator, every address with a record in the
\* ledger is allocated in the wrapped allocator, in every interleaving.
C19_LedgerWithinBacking == DOMAIN allocatings \subseteq sysLive

\* Both orders at once: one thread has removed the record of its address and
\* has not yet freed it, the other has got an address from the wrapped
\* allocator and has not yet recorded it.
C19_Witness ==
    \E t \in Threads, u \in Threads :
        /\ pc[t] = "dealloc_inner" /\ tptr[t] \in sysLive \ DOMAIN allocatings
        /\ pc[u] = "alloc_lock" /\ tptr[u] \in sysLive \ DOMAIN allocatings
        /\ tptr[t] # tptr[u]

\* C20: the step in which a deallocate fails on a null address or on an
\* untracked address leaves the mapping unchanged; the step in which it fails
\* on a descriptor mismatch removes the record of its address and nothing
\* else, and the call ends there without freeing anything in the wrapped
\* allocator.
C20_FailedDeallocEffect ==
    [][\A t \in Threads :
          fired'[t] # fired[t] =>
              /\ fired'[t] \in {"dealloc_null", "dealloc_untracked"}
                    => allocatings' = allocatings
              /\ fired'[t] = "dealloc_mismatch"
                    => /\ tptr[t] \in DOMAIN allocatings
                       /\ allocatings[tptr[t]] # tlay[t]
                       /\ allocatings' = MapRemove(allocatings, tptr[t])
                       /\ tptr[t] \notin DOMAIN allocatings'
                       /\ sysLive' = sysLive /\ pc'[t] = "panicked"]_vars

\* A deallocate with the wrong descriptor failed: the address is held by the
\* program and allocated in the wrapped allocator, but it has no record any more.
C20_Witness ==
    \E t \in Threads :
        /\ fired[t] = "dealloc_mismatch" /\ call[t] = "dealloc"
        /\ tptr[t] \in DOMAIN held /\ tptr[t] \in sysLive
        /\ tptr[t] \notin DOMAIN allocatings /\ seen[t] = held[tptr[t]]

\* C21: an assertion that fires inside the critical section of allocate or
\* deallocate poisons the lock for good.  From then on nobody enters a critical
\* section and the mapping stays as it is; every allocate whose wrapped
\* allocator returned an address, every deallocate of a non-null address and
\* every drop that began as the sole handle goes to the lock, and every thread
\* that tries the lock fails there, through whichever clone it came.
C21_PoisonFailsLaterCalls ==
    [][/\ \A t \in Threads :
             (fired'[t] # fired[t]
              /\ fired'[t] \in {"alloc_exists", "dealloc_untracked", "dealloc_mismatch"})
                 => poisoned'
       /\ poisoned => (poisoned' /\ lockOwner' = 0 /\ allocatings' = allocatings)
       /\ \A t \in Threads :
             (call'[t] # call[t] /\ pc'[t] # "panicked") =>
                 /\ (call'[t] = "alloc" /\ tptr'[t] # Null) => pc'[t] = "alloc_lock"
                 /\ (call'[t] = "dealloc" /\ tptr'[t] # Null) => pc'[t] = "dealloc_lock"
                 /\ (call'[t] = "drop" /\ lastDrop'[t]) => pc'[t] = "drop_lock"
       /\ \A t \in Threads :
             (poisoned /\ pc[t] \in {"alloc_lock", "dealloc_lock", "drop_lock"}
              /\ pc'[t] # pc[t])
                 => (pc'[t] = "panicked" /\ fired'[t] = "poison")]_vars

\* After a deallocate failed inside the critical section, a deallocate of an
\* address the program holds, with its own descriptor, failed at the lock.
C21_Witness ==
    \E t \in Threads, u \in Threads :
        /\ fired[u] \in {"alloc_exists", "dealloc_untracked", "dealloc_mismatch"}
        /\ fired[t] = "poison" /\ call[t] = "dealloc"
        /\ tptr[t] \in DOMAIN allocatings /\ allocatings[tptr[t]] = tlay[t]
        /\ tptr[t] \in sysLive

\* C22: in a leak or into_raw call the allocator handle of the box is dropped
\* before the call returns.  When it is the sole handle and the escaped address
\* is one the program holds, the call goes to the emptiness check and ends in
\* the empty-mapping assertion with the address still recorded: it is never
\* on its way back to the caller.  When another handle is alive the call takes
\* neither the lock nor the check and fires nothing.
C22_EscapeChecksSoleHandle ==
    \A t \in Threads :
        cont[t] \in {"leak", "into_raw"} =>
            /\ call[t] = "drop" /\ box[tbox[t]].ptr = Null
            /\ (lastDrop[t] /\ ~misuse /\ Holds(held, tptr[t], LayoutT)) =>
                   /\ pc[t] \in {"drop_lock", "drop_check", "panicked"}
                   /\ MapGet(allocatings, tptr[t]) = LayoutT
                   /\ pc[t] = "panicked" =>
                          (fired[t] = "drop_nonempty" /\ hstate[box[tbox[t]].h] = "dead")
            /\ ~lastDrop[t] => (pc[t] = "drop_release" /\ fired[t] = "")

\* A box made by new with the only handle was turned into a raw pointer: the
\* call ended in the empty-mapping assertion, the address still recorded.
C22_Witness ==
    \E t \in Threads :
        /\ cont[t] = "into_raw" /\ box[tbox[t]].by = "new" /\ lastDrop[t]
        /\ fired[t] = "drop_nonempty" /\ pc[t] = "panicked"
        /\ MapGet(allocatings, tptr[t]) = LayoutT /\ ~misuse
        /\ \A h \in Handles \ {1} : hstate[h] = "unborn"

====
